---------------------------- MODULE Spec2Model ----------------------------
(***************************************************************************)
(* A model of the ngonx reverse proxy: the load-balancing router of        *)
(* cmd/cli/lb.go (StartLB and the ErrorHandler it installs on every        *)
(* backend's ReverseProxy) over the server pool, and the gateway of the    *)
(* proxy handlers (ProxyGateway and its authorization checks).             *)
(*                                                                         *)
(* The server pool (NextPeer, MarkBackendStatus), the Lbalancer entry      *)
(* point and the health checker live in internal/proxy, which is not among *)
(* the sources; they are modelled from sections 4.2 - 4.4 of the           *)
(* specification.                                                          *)
(***************************************************************************)
EXTENDS Integers, Sequences, FiniteSets, TLC

\* ------------------------------------------------------------------ bounds

\* Number of backends the load balancer is started with (the comma-separated
\* server list of lb.go:34).
NumBackends == 2

\* The cursor is kept modulo length * CursorLaps.  Only cursor mod length is
\* ever read, so this keeps every selection exact.
CursorLaps == 2

\* The attempts counter is only logged (lb.go:59); values above MaxAttempts
\* are recorded as MaxAttempts.
MaxAttempts == 2

\* The pool driver starts pools of 1 .. MaxPool backends.
MaxPool == 3

\* ProxyGateway is given 1 .. MaxEndpoints endpoints.
MaxEndpoints == 2

\* time.Now() and the tokens' exp claims range over 0 .. MaxTime.
MaxTime == 1

\* The server list given to StartLB has at most this many pieces.
MaxList == 3

\* `if retry < 3` (lb.go:46)
maxRetries == 3

Requests == {1, 2}

NoPeer == 0

StatusOK == 200

StatusServiceUnavailable == 503

\* http.StatusInternalServerError, written by the protected handles'
\* ErrorHandler
StatusInternalServerError == 500

\* written by ReverseProxy's default error handler
StatusBadGateway == 502

GRequests == {1, 2}

Callers == {1, 2}

\* A caller that holds no cursor value.
NoValue == -1

VARIABLES
    alive,      \* ServerPool: the backends in order, each its liveness flag
    cursor,     \* ServerPool: the selection counter
    pc,         \* per request: where its goroutine is
    peer,       \* per request: the backend whose ReverseProxy serves it
    retry,      \* per request: domain.RETRY in the request's context
    attempts,   \* per request: domain.ATTEMPTS in the request's context
    status,     \* per request: status written to the client (0: none yet)
    served,     \* per request: the backend whose response the client got
    sleeps,     \* history: the <<backend, retry>> of every backoff sleep
    fwds,       \* history: forwards to the current peer since it was chosen
    ret,        \* pool driver: result of the last NextPeer() call
    calls,      \* pool driver: results of the consecutive NextPeer() calls
                \*              made since the last liveness change
    endpoints,  \* gateway: the configured endpoints, each its PathProtected
    securityType, \* gateway: the securityType ProxyGateway was given
    store,      \* gateway: what ph.Service.GetKEY(engine, key) returns
    proxy,      \* gateway: the package-level var proxy (a handle, 0: nil)
    registered, \* gateway: how many endpoints ProxyGateway has registered
    hook,       \* gateway: per handle, the error its ModifyResponse holds
    greq,       \* gateway: per request, its headers, the check's result,
                \*          whether it was sent to the upstream and whether
                \*          that answered, and the client's response
    cancelled,  \* per request: its client has cancelled it (context done)
    boot,       \* StartLB: the server list, the next token and the phase
    urls,       \* ServerPool: the backends in order, each its URL
    mark,       \* pool driver: the last markBackendStatus(address, alive)
    callers,    \* pool driver: concurrent nextPeer() callers, each its
                \*              position and the cursor value it obtained
    incs,       \* pool driver: cursor increments made by the callers
    reach,      \* per backend: a probe of it succeeds
    probing,    \* health checker: backends whose probe is outstanding
    recovered   \* history of one backend, any of the pool: the router
                \*          marked it dead ("marked"), a probe has since
                \*          marked it alive ("revived"), nextPeer() has
                \*          since returned it ("returned")

lbVars == <<pc, peer, retry, attempts, status, served, sleeps, fwds,
            cancelled>>

poolVars == <<alive, cursor>>

driverVars == <<ret, calls>>

gwVars == <<endpoints, securityType, store, proxy, registered, hook, greq>>

startVars == <<boot, urls>>

concVars == <<mark, callers, incs>>

healthVars == <<reach, probing, recovered>>

auxVars == <<startVars, concVars, healthVars>>

vars == <<alive, cursor, pc, peer, retry, attempts, status, served, sleeps,
          fwds, ret, calls, endpoints, securityType, store, proxy,
          registered, hook, greq, cancelled, boot, urls, mark, callers, incs,
          reach, probing, recovered>>

\* A gateway request that has not arrived.
IdleRequest ==
    [pc |-> "idle", ep |-> 0, auth |-> <<>>, key |-> "", now |-> 0,
     secret |-> [val |-> "", err |-> FALSE],
     check |-> "notrun", reached |-> FALSE, answered |-> FALSE,
     status |-> 0, xproxy |-> FALSE]

\* A nextPeer() caller that is not in a call.
IdleCaller == [pc |-> "idle", got |-> NoValue]

\* The variables of the startup, of the pool's drivers and of the health
\* checker, where these are not running.
AuxIdle ==
    /\ boot = [list |-> <<>>, next |-> 0, phase |-> "off"]
    /\ urls = <<>>
    /\ mark = [addr |-> 0, val |-> FALSE, called |-> FALSE, twice |-> FALSE]
    /\ callers = [c \in Callers |-> IdleCaller]
    /\ incs = 0
    /\ reach = <<>>
    /\ probing = {}
    /\ recovered = [b |-> NoPeer, stage |-> "never"]

\* ------------------------------------------------------------ server pool

\* The pool is the ordered sequence of its backends' liveness flags; a
\* backend is named by its position in it.
Backends == 1..Len(alive)

CursorMod == Len(alive) * CursorLaps

Min(S) == CHOOSE x \in S : \A y \in S : x <= y

\* cursor is incremented on every selection attempt
NextIndex(c) == (c + 1) % CursorMod

\* The backend at position idx (0-based) of the ordered pool.
BackendAt(idx) == idx + 1

\* A scan that stops one position short of a full turn.
ScanShort(al, start) ==
    LET hits == {i \in 0..(Len(al) - 2) : al[BackendAt((start + i) % Len(al))]}
    IN  IF hits = {} THEN NoPeer
        ELSE BackendAt((start + Min(hits)) % Len(al))

\* nextPeer's scan: forward from `start` for up to length positions, the
\* first backend whose flag is true; NoPeer when there is none.
ScanFrom(al, start) ==
    LET hits == {i \in 0..(Len(al) - 1) : al[BackendAt((start + i) % Len(al))]}
    IN  IF hits = {} THEN NoPeer
        ELSE BackendAt((start + Min(hits)) % Len(al))

\* nextPeer(): the backend returned for the (already incremented) cursor c.
NextPeer(al, c) == ScanFrom(al, c % Len(al))

\* markBackendStatus(address, alive): sets the flag of the matching backend;
\* a no-op when no backend matches.
\* A markBackendStatus that sets the flag of every backend.
MarkEveryBackend(al, b, v) ==
    IF b \in 1..Len(al) THEN [i \in 1..Len(al) |-> v] ELSE al

MarkBackendStatus(al, b, v) ==
    IF b \in 1..Len(al) THEN [al EXCEPT ![b] = v] ELSE al

\* ------------------------------------------------- load-balancing router

Bump(n) == IF n < MaxAttempts THEN n + 1 ELSE MaxAttempts

\* http.Server hands a new request to handlers.Lbalancer; its context holds
\* neither RETRY nor ATTEMPTS, which read as 0.
Arrive(r) ==
    /\ pc[r] = "idle"
    /\ pc' = [pc EXCEPT ![r] = "selecting"]
    /\ UNCHANGED <<cancelled, peer, retry, attempts, status, served, sleeps, fwds>>
    /\ UNCHANGED <<poolVars, driverVars, gwVars, auxVars>>

\* handlers.Lbalancer: nextPeer(); none alive: service unavailable; else
\* forward through the peer's ReverseProxy with the context as given.
\* The history of the tracked backend after nextPeer() returned p, and
\* after the router marked b dead.
Returned(h, p) ==
    IF p = h.b /\ h.stage = "revived" THEN [h EXCEPT !.stage = "returned"]
    ELSE h

MarkedDead(h, b) == IF b = h.b THEN [h EXCEPT !.stage = "marked"] ELSE h

Lbalancer(r) ==
    /\ pc[r] = "selecting"
    /\ cursor' = NextIndex(cursor)
    /\ LET p == NextPeer(alive, cursor')
       IN  IF p = NoPeer
           THEN /\ pc' = [pc EXCEPT ![r] = "failed"]
                /\ status' = [status EXCEPT ![r] = StatusServiceUnavailable]
                /\ UNCHANGED <<peer, fwds>>
           ELSE /\ pc' = [pc EXCEPT ![r] = "forwarding"]
                /\ peer' = [peer EXCEPT ![r] = p]
                /\ fwds' = [fwds EXCEPT ![r] = 1]
                /\ UNCHANGED status
    /\ recovered' = Returned(recovered, NextPeer(alive, cursor'))
    /\ UNCHANGED <<alive, retry, attempts, served, sleeps, cancelled,
                 driverVars, gwVars, startVars, concVars,
                 reach, probing>>

\* The forward succeeds: the backend's response is streamed to the client.
ForwardOk(r) ==
    /\ pc[r] = "forwarding"
    /\ ~cancelled[r]
    /\ pc' = [pc EXCEPT ![r] = "succeeded"]
    /\ status' = [status EXCEPT ![r] = StatusOK]
    /\ served' = [served EXCEPT ![r] = peer[r]]
    /\ UNCHANGED <<cancelled, peer, retry, attempts, sleeps, fwds>>
    /\ UNCHANGED <<poolVars, driverVars, gwVars, auxVars>>

\* An error handler that gives a backend up one retry early (retry < 2).
ErrorHandlerEarly(r) ==
    /\ pc[r] = "forwarding"
    /\ IF retry[r] < maxRetries - 1
       THEN /\ pc' = [pc EXCEPT ![r] = "sleeping"]
            /\ sleeps' = [sleeps EXCEPT ![r] = Append(@, <<peer[r], retry[r]>>)]
            /\ UNCHANGED <<alive, attempts>>
       ELSE /\ alive' = MarkBackendStatus(alive, peer[r], FALSE)
            /\ attempts' = [attempts EXCEPT ![r] = Bump(@)]
            /\ pc' = [pc EXCEPT ![r] = "selecting"]
            /\ UNCHANGED sleeps
    /\ UNCHANGED <<cursor, peer, retry, status, served, fwds, cancelled,
                 driverVars, gwVars, auxVars>>

\* An error handler that answers the client itself once the retries are used
\* up, instead of rerouting.
ErrorHandlerGiveUp(r) ==
    /\ pc[r] = "forwarding"
    /\ IF retry[r] < maxRetries
       THEN /\ pc' = [pc EXCEPT ![r] = "sleeping"]
            /\ sleeps' = [sleeps EXCEPT ![r] = Append(@, <<peer[r], retry[r]>>)]
            /\ UNCHANGED <<alive, attempts, status>>
       ELSE /\ alive' = MarkBackendStatus(alive, peer[r], FALSE)
            /\ attempts' = [attempts EXCEPT ![r] = Bump(@)]
            /\ pc' = [pc EXCEPT ![r] = "failed"]
            /\ status' = [status EXCEPT ![r] = StatusServiceUnavailable]
            /\ UNCHANGED sleeps
    /\ UNCHANGED <<cursor, peer, retry, served, fwds, cancelled,
                 driverVars, gwVars, auxVars>>

\* proxy.ErrorHandler (lb.go:42-62), run when the forward to peer[r] fails.
\* retry < 3: sleep backoff.Default.Duration(retry).  Otherwise mark the
\* backend down, add one to ATTEMPTS in a context derived from the
\* request's (RETRY is carried over as it is) and call Lbalancer again.
ErrorHandler(r) ==
    /\ pc[r] = "forwarding"
    /\ IF retry[r] < maxRetries
       THEN /\ pc' = [pc EXCEPT ![r] = "sleeping"]
            /\ sleeps' = [sleeps EXCEPT ![r] = Append(@, <<peer[r], retry[r]>>)]
            /\ UNCHANGED <<alive, attempts, recovered>>
       ELSE /\ alive' = MarkBackendStatus(alive, peer[r], FALSE)
            /\ attempts' = [attempts EXCEPT ![r] = Bump(@)]
            /\ pc' = [pc EXCEPT ![r] = "selecting"]
            /\ recovered' = MarkedDead(recovered, peer[r])
            /\ UNCHANGED sleeps
    /\ UNCHANGED <<cursor, peer, retry, status, served, fwds, cancelled,
                 driverVars, gwVars, startVars, concVars,
                 reach, probing>>

\* lb.go:48-49, after the sleep: RETRY = retry + 1 in a derived context and
\* the same proxy serves the request again.
RetrySameBackend(r) ==
    /\ pc[r] = "sleeping"
    /\ retry' = [retry EXCEPT ![r] = @ + 1]
    /\ fwds' = [fwds EXCEPT ![r] = @ + 1]
    /\ pc' = [pc EXCEPT ![r] = "forwarding"]
    /\ UNCHANGED <<cancelled, peer, attempts, status, served, sleeps>>
    /\ UNCHANGED <<poolVars, driverVars, gwVars, auxVars>>

\* handlers.HealthCheck (started at lb.go:79): a probe of backend b ended
\* with result ok and the flag is set to it.
HealthCheck(b, ok) ==
    /\ alive' = MarkBackendStatus(alive, b, ok)
    /\ alive' # alive
    /\ UNCHANGED <<cursor, lbVars, driverVars, gwVars, auxVars>>

\* StartLB: every backend is added with Alive: true (lb.go:64-68).
Init ==
    /\ alive = [b \in 1..NumBackends |-> TRUE]
    /\ cursor = 0
    /\ pc = [r \in Requests |-> "idle"]
    /\ peer = [r \in Requests |-> NoPeer]
    /\ retry = [r \in Requests |-> 0]
    /\ attempts = [r \in Requests |-> 0]
    /\ status = [r \in Requests |-> 0]
    /\ served = [r \in Requests |-> NoPeer]
    /\ sleeps = [r \in Requests |-> <<>>]
    /\ fwds = [r \in Requests |-> 0]
    /\ cancelled = [r \in Requests |-> FALSE]
    /\ ret = NoPeer
    /\ calls = <<>>
    /\ endpoints = <<>>
    /\ securityType = "none"
    /\ store = [val |-> "", err |-> FALSE]
    /\ proxy = 0
    /\ registered = 0
    /\ hook = <<>>
    /\ greq = [g \in GRequests |-> IdleRequest]
    /\ AuxIdle

RequestStep(r) ==
    \/ Lbalancer(r)
    \/ ForwardOk(r)
    \/ ErrorHandler(r)
    \/ RetrySameBackend(r)

Next ==
    \/ \E r \in Requests : Arrive(r)
    \/ \E r \in Requests : RequestStep(r)
    \/ \E b \in Backends, ok \in BOOLEAN : HealthCheck(b, ok)

Spec == Init /\ [][Next]_vars

\* The client of a request in flight goes away: the request's context is
\* done.  From then on a forward of the request fails (ForwardOk); the
\* error handler reads only RETRY and ATTEMPTS from the context
\* (lb.go:44-61) and time.Sleep (lb.go:48) does not wait on it.
Cancel(r) ==
    /\ pc[r] \in {"selecting", "forwarding", "sleeping"}
    /\ ~cancelled[r]
    /\ cancelled' = [cancelled EXCEPT ![r] = TRUE]
    /\ UNCHANGED <<pc, peer, retry, attempts, status, served, sleeps, fwds>>
    /\ UNCHANGED <<poolVars, driverVars, gwVars, auxVars>>

CancelNext ==
    \/ Next
    \/ \E r \in Requests : Cancel(r)

\* The router with clients that may cancel their requests.
CancelSpec == Init /\ [][CancelNext]_vars

\* Every request's goroutine keeps being scheduled while it has a step to
\* take.  The health checker's probe results are the environment's.
FairSpec == Spec /\ \A r \in Requests : WF_vars(RequestStep(r))

\* ------------------------------------------------------------ pool driver
\* The pool on its own: consecutive nextPeer() calls and liveness changes.

LastN(s, n) == IF Len(s) <= n THEN s ELSE SubSeq(s, Len(s) - n + 1, Len(s))

PoolNextPeer ==
    /\ cursor' = NextIndex(cursor)
    /\ ret' = NextPeer(alive, cursor')
    /\ calls' = LastN(Append(calls, ret'), Len(alive))
    /\ UNCHANGED <<alive, lbVars, gwVars, auxVars>>

\* The addresses markBackendStatus is called with: those of the pool's
\* backends and two that no backend of the pool has.
Addresses == 0..(Len(alive) + 1)

\* `mark` records the call, and whether it repeats the call before it.
PoolMark(b, v) ==
    /\ alive' = MarkBackendStatus(alive, b, v)
    /\ calls' = IF alive' = alive THEN calls ELSE <<>>
    /\ mark' = [addr |-> b, val |-> v, called |-> TRUE,
                twice |-> mark.called /\ mark.addr = b /\ mark.val = v]
    /\ UNCHANGED <<cursor, ret, lbVars, gwVars, startVars, callers, incs,
                   healthVars>>

\* addBackend, once per configured server, each with its flag set.
PoolInit ==
    /\ \E n \in 1..MaxPool : alive = [b \in 1..n |-> TRUE]
    /\ cursor = 0
    /\ pc = [r \in Requests |-> "idle"]
    /\ peer = [r \in Requests |-> NoPeer]
    /\ retry = [r \in Requests |-> 0]
    /\ attempts = [r \in Requests |-> 0]
    /\ status = [r \in Requests |-> 0]
    /\ served = [r \in Requests |-> NoPeer]
    /\ sleeps = [r \in Requests |-> <<>>]
    /\ fwds = [r \in Requests |-> 0]
    /\ cancelled = [r \in Requests |-> FALSE]
    /\ ret = NoPeer
    /\ calls = <<>>
    /\ endpoints = <<>>
    /\ securityType = "none"
    /\ store = [val |-> "", err |-> FALSE]
    /\ proxy = 0
    /\ registered = 0
    /\ hook = <<>>
    /\ greq = [g \in GRequests |-> IdleRequest]
    /\ AuxIdle

PoolNext ==
    \/ PoolNextPeer
    \/ \E b \in Addresses, v \in BOOLEAN : PoolMark(b, v)

PoolSpec == PoolInit /\ [][PoolNext]_vars

\* Concurrent nextPeer() calls, each in two steps: the atomic increment of
\* the cursor, which hands the caller the new value, and the scan from it.

\* The calls begun so far.  The driver stops short of the cursor's modulus.
Begun == incs + Cardinality({c \in Callers : callers[c].pc = "inc"})

CallNextPeer(c) ==
    /\ callers[c].pc = "idle"
    /\ Begun < CursorMod - 1
    /\ callers' = [callers EXCEPT ![c].pc = "inc"]
    /\ UNCHANGED <<poolVars, lbVars, driverVars, gwVars, startVars, mark,
                   incs, healthVars>>

\* An increment in two steps, a read of the cursor and a write of the
\* value read plus one.
RacyIncrement(c) ==
    /\ callers[c].pc = "inc"
    /\ IF callers[c].got = NoValue
       THEN /\ callers' = [callers EXCEPT ![c].got = cursor]
            /\ UNCHANGED <<cursor, incs>>
       ELSE /\ cursor' = NextIndex(callers[c].got)
            /\ callers' = [callers EXCEPT ![c] = [pc |-> "scan",
                                                  got |-> cursor']]
            /\ incs' = incs + 1
    /\ UNCHANGED <<alive, lbVars, driverVars, gwVars, startVars, mark,
                   healthVars>>

\* nextPeer's atomic increment: one step adds one to the cursor and gives
\* the caller the new value.
AtomicIncrement(c) ==
    /\ callers[c].pc = "inc"
    /\ cursor' = NextIndex(cursor)
    /\ callers' = [callers EXCEPT ![c] = [pc |-> "scan", got |-> cursor']]
    /\ incs' = incs + 1
    /\ UNCHANGED <<alive, lbVars, driverVars, gwVars, startVars, mark,
                   healthVars>>

\* nextPeer's scan, from the value the caller obtained.
ScanPeers(c) ==
    /\ callers[c].pc = "scan"
    /\ ret' = NextPeer(alive, callers[c].got)
    /\ callers' = [callers EXCEPT ![c] = IdleCaller]
    /\ UNCHANGED <<poolVars, calls, lbVars, gwVars, startVars, mark, incs,
                   healthVars>>

ConcNext ==
    \/ \E c \in Callers : CallNextPeer(c)
    \/ \E c \in Callers : AtomicIncrement(c)
    \/ \E c \in Callers : ScanPeers(c)
    \/ \E b \in Addresses, v \in BOOLEAN : PoolMark(b, v)

ConcSpec == PoolInit /\ [][ConcNext]_vars

\* ---------------------------------------------------------------- gateway

\* A token without an exp claim (jwt.Payload.ExpirationTime is nil).
NoExp == -1

Times == 0..MaxTime

\* The shared secret ProxyGateway is given as `key` for the jwt check.
JwtKey == "s1"

SigningKeys == {"s1", "s2"}

\* Header values are sequences of chunks: the word Bearer, the word Basic,
\* one space, a signed token (who signed it, its exp claim), or some text
\* that is no token.  No chunk but the space holds a space.
Chunk(kind) == [kind |-> kind, signedWith |-> "", exp |-> NoExp]

Jwt(k, e) == [kind |-> "jwt", signedWith |-> k, exp |-> e]

Bearer == Chunk("Bearer")

Space == Chunk("space")

Tokens == {Jwt(k, e) : k \in SigningKeys, e \in Times \cup {NoExp}}

\* The Authorization headers requests are sent with.
AuthHeaders ==
    {<<Bearer, Space, t>> : t \in Tokens}
    \cup { <<>>,
           <<Jwt(JwtKey, MaxTime)>>,
           <<Chunk("Basic"), Space, Jwt(JwtKey, MaxTime)>>,
           <<Bearer, Space>>,
           <<Bearer, Space, Space, Jwt(JwtKey, MaxTime)>>,
           <<Bearer, Space, Chunk("junk")>> }

\* The X-API-KEY headers requests are sent with ("": no such header).
ApiKeys == {"", "k1", "k2"}

\* ph.Service.GetKEY(engine, key): the stored secret, or an error and the
\* empty string.
Stores == {[val |-> "k1", err |-> FALSE], [val |-> "", err |-> TRUE]}

\* The secrets SaveSecretKEY is called with.
SavedKeys == {"k1", "k2"}

SecurityTypes == {"jwt", "apikey", "none"}

\* strings.HasPrefix(header, "Bearer ")
HasBearerPrefix(h) == Len(h) >= 2 /\ h[1] = Bearer /\ h[2] = Space

\* strings.Split(s, " ")
RECURSIVE Split(_)
Split(s) ==
    IF \A i \in 1..Len(s) : s[i] # Space THEN <<s>>
    ELSE LET i == Min({j \in 1..Len(s) : s[j] = Space})
         IN  <<SubSeq(s, 1, i - 1)>> \o Split(SubSeq(s, i + 1, Len(s)))

\* jwt.Verify(token, hs, &pl, validatePayload) with the expiration validator:
\* the token is parsed, its signature is verified under the key, then the
\* payload is validated (exp present and now not after it).
Verify(token, key, now) ==
    IF Len(token) # 1 \/ token[1].kind # "jwt" THEN "ErrMalformed"
    ELSE IF token[1].signedWith # key THEN "ErrHMACVerification"
    ELSE IF token[1].exp = NoExp \/ now > token[1].exp THEN "ErrExpValidation"
    ELSE "nil"

\* A check that lets a failed signature verification through.
checkJWTNoHMAC(header, key, now) ==
    IF ~HasBearerPrefix(header) THEN "ErrBearerTokenFormat"
    ELSE LET err == Verify(Split(header)[2], key, now)
         IN  IF err = "ErrExpValidation" THEN "ErrTokenExpValidation"
             ELSE "nil"

\* checkJWTSecretKeyFromRequest(req, key), req's Authorization header given;
\* the error it returns ("nil": none).
checkJWTSecretKeyFromRequest(header, key, now) ==
    IF ~HasBearerPrefix(header) THEN "ErrBearerTokenFormat"
    ELSE LET err == Verify(Split(header)[2], key, now)
         IN  IF err = "ErrExpValidation" THEN "ErrTokenExpValidation"
             ELSE IF err = "ErrHMACVerification" THEN "ErrTokenHMACValidation"
             ELSE "nil"

\* checkAPIKEYSecretKeyFromRequest(req, ph, engine, key), req's X-API-KEY
\* header given: a lookup error is logged, then the value is compared.
checkAPIKEYSecretKeyFromRequest(header, st) ==
    IF st.val = header THEN "nil" ELSE "Invalid API KEY"

\* The switch of the protected endpoints' Director: the check that runs for
\* the securityType, "notrun" when no case matches.
DirectorCheck(auth, key, now) ==
    IF securityType = "jwt"
    THEN checkJWTSecretKeyFromRequest(auth, JwtKey, now)
    ELSE IF securityType = "apikey"
    THEN checkAPIKEYSecretKeyFromRequest(key, store)
    ELSE "notrun"

\* modifyResponse(err) run by ReverseProxy on the upstream's response: the
\* header is set on that response; with an error the response is dropped and
\* the handle's ErrorHandler answers instead.  errStatus is what that handler
\* writes.  The client's status and whether its response has X-Proxy.
modifyResponse(err, errStatus) ==
    IF err = "nil" THEN [status |-> StatusOK, xproxy |-> TRUE]
    ELSE [status |-> errStatus, xproxy |-> FALSE]

\* The status the ErrorHandler of endpoint e's handle writes: the one set at
\* part_001:78-81 for a protected endpoint, ReverseProxy's default otherwise.
ErrorStatus(e) ==
    IF endpoints[e] THEN StatusInternalServerError ELSE StatusBadGateway

\* One turn of ProxyGateway's loop: a new ReverseProxy for the next endpoint
\* is assigned to the package-level proxy and registered for its path.
ProxyGateway ==
    /\ registered < Len(endpoints)
    /\ registered' = registered + 1
    /\ proxy' = registered + 1
    /\ UNCHANGED <<endpoints, securityType, store, hook, greq>>
    /\ UNCHANGED <<poolVars, lbVars, driverVars, auxVars>>

\* ProxyHandler.SaveSecretKEY(engine, key, apikey): the service stores the
\* secret, or fails, which is logged and leaves the store as it was.
SaveSecretKEY(apikey, ok) ==
    /\ store' = IF ok THEN [val |-> apikey, err |-> FALSE] ELSE store
    /\ UNCHANGED <<endpoints, securityType, proxy, registered, hook, greq>>
    /\ UNCHANGED <<poolVars, lbVars, driverVars, auxVars>>

\* A request for endpoint e is served by e's handle: its Director runs, on
\* a protected endpoint the check.  The JWT check reads nothing shared, and
\* its result is installed as proxy.ModifyResponse (proxy being the
\* package-level variable) in the same step, after which the request is
\* sent to the upstream.  The API-key check reads the secret store
\* (part_001:73, GetKEY); its result is installed in a later step, Install,
\* with no lock held in between.
Serve(g, e, auth, key, now) ==
    /\ registered = Len(endpoints)
    /\ greq[g].pc = "idle"
    /\ LET chk == IF endpoints[e] THEN DirectorCheck(auth, key, now)
                  ELSE "notrun"
           reads == endpoints[e] /\ securityType = "apikey"
       IN  /\ greq' = [greq EXCEPT ![g] =
                         [pc |-> IF reads THEN "checked" ELSE "upstream",
                          ep |-> e, auth |-> auth,
                          key |-> key, now |-> now, secret |-> store,
                          check |-> chk,
                          reached |-> ~reads, answered |-> FALSE,
                          status |-> 0, xproxy |-> FALSE]]
           /\ hook' = IF chk = "notrun" \/ reads THEN hook
                      ELSE [hook EXCEPT ![proxy] = chk]
    /\ UNCHANGED <<endpoints, securityType, store, proxy, registered>>
    /\ UNCHANGED <<poolVars, lbVars, driverVars, auxVars>>

\* part_001:74: the Director of request g installs the result of its
\* API-key check as proxy.ModifyResponse; the request is then sent to the
\* upstream.
Install(g) ==
    /\ greq[g].pc = "checked"
    /\ hook' = [hook EXCEPT ![proxy] = greq[g].check]
    /\ greq' = [greq EXCEPT ![g].pc = "upstream", ![g].reached = TRUE]
    /\ UNCHANGED <<endpoints, securityType, store, proxy, registered>>
    /\ UNCHANGED <<poolVars, lbVars, driverVars, auxVars>>

\* The upstream's response (upOk) or a transport error arrives at the handle
\* of the request's endpoint, which answers the client.
Respond(g, upOk) ==
    /\ greq[g].pc = "upstream"
    /\ LET e == greq[g].ep
           out == IF ~upOk
                  THEN [status |-> ErrorStatus(e), xproxy |-> FALSE]
                  ELSE IF hook[e] = "unset"
                  THEN [status |-> StatusOK, xproxy |-> FALSE]
                  ELSE modifyResponse(hook[e], ErrorStatus(e))
       IN  greq' = [greq EXCEPT ![g].pc = "done",
                                ![g].answered = upOk,
                                ![g].status = out.status,
                                ![g].xproxy = out.xproxy]
    /\ UNCHANGED <<endpoints, securityType, store, proxy, registered, hook>>
    /\ UNCHANGED <<poolVars, lbVars, driverVars, auxVars>>

GatewayInit ==
    /\ endpoints \in UNION {[1..n -> BOOLEAN] : n \in 1..MaxEndpoints}
    /\ securityType \in SecurityTypes
    /\ store \in Stores
    /\ proxy = 0
    /\ registered = 0
    /\ hook = [h \in 1..Len(endpoints) |-> "unset"]
    /\ greq = [g \in GRequests |-> IdleRequest]
    /\ AuxIdle
    /\ alive = <<>>
    /\ cursor = 0
    /\ pc = [r \in Requests |-> "idle"]
    /\ peer = [r \in Requests |-> NoPeer]
    /\ retry = [r \in Requests |-> 0]
    /\ attempts = [r \in Requests |-> 0]
    /\ status = [r \in Requests |-> 0]
    /\ served = [r \in Requests |-> NoPeer]
    /\ sleeps = [r \in Requests |-> <<>>]
    /\ fwds = [r \in Requests |-> 0]
    /\ cancelled = [r \in Requests |-> FALSE]
    /\ ret = NoPeer
    /\ calls = <<>>

\* The headers the gateway's clients send: for the configured check, one
\* that passes it and some that fail it.
SentAuth ==
    IF securityType = "jwt"
    THEN {<<>>, <<Bearer, Space, Jwt(JwtKey, MaxTime)>>,
          <<Bearer, Space, Jwt("s2", MaxTime)>>}
    ELSE {<<>>}

SentKeys == IF securityType = "apikey" THEN ApiKeys ELSE {""}

\* Concurrent requests on the configured endpoints.
GatewayNext ==
    \/ ProxyGateway
    \/ \E g \in GRequests, e \in 1..Len(endpoints) :
         \E auth \in SentAuth, key \in SentKeys : Serve(g, e, auth, key, 0)
    \/ \E g \in GRequests : Install(g)
    \/ \E g \in GRequests, upOk \in BOOLEAN : Respond(g, upOk)
    \/ \E apikey \in SavedKeys, ok \in BOOLEAN : SaveSecretKEY(apikey, ok)

GatewaySpec == GatewayInit /\ [][GatewayNext]_vars

\* One request at a time, with every Authorization header, X-API-KEY header
\* and time of arrival: the checks on all their inputs.
AuthNext ==
    \/ ProxyGateway
    \/ \E e \in 1..Len(endpoints) :
         \E auth \in AuthHeaders, key \in ApiKeys, now \in Times :
            Serve(1, e, auth, key, now)
    \/ Install(1)
    \/ \E upOk \in BOOLEAN : Respond(1, upOk)
    \/ \E apikey \in SavedKeys, ok \in BOOLEAN : SaveSecretKEY(apikey, ok)

AuthSpec == GatewayInit /\ [][AuthNext]_vars

\* --------------------------------------------------------- health checker
\* The periodic health checker next to the router's use of the pool.
\* reach[b]: backend b accepts connections, so that a probe of it succeeds.
\* A forward to it may fail all the same (a timeout, the client gone).

\* A tick: one probe per backend is started, all at once.  The probes of a
\* tick time out well before the next tick.
Tick ==
    /\ probing = {}
    /\ probing' = Backends
    /\ UNCHANGED <<poolVars, lbVars, driverVars, gwVars, startVars, concVars,
                   reach, recovered>>

\* Probes taken in the pool's order, each waiting for the one before it.
ProbeInTurn(b) ==
    /\ b \in probing
    /\ b = Min(probing)
    /\ alive' = MarkBackendStatus(alive, b, reach[b])
    /\ probing' = probing \ {b}
    /\ recovered' = IF recovered.b = b /\ recovered.stage = "marked" /\ reach[b]
                    THEN [recovered EXCEPT !.stage = "revived"]
                    ELSE recovered
    /\ UNCHANGED <<cursor, lbVars, driverVars, gwVars, startVars, concVars,
                   reach>>

\* The probe of b ends, with a connection or with an error or its timeout,
\* and b's flag is set to the result.
ProbeDone(b) ==
    /\ b \in probing
    /\ alive' = MarkBackendStatus(alive, b, reach[b])
    /\ probing' = probing \ {b}
    /\ recovered' = IF recovered.b = b /\ recovered.stage = "marked" /\ reach[b]
                    THEN [recovered EXCEPT !.stage = "revived"]
                    ELSE recovered
    /\ UNCHANGED <<cursor, lbVars, driverVars, gwVars, startVars, concVars,
                   reach>>

\* The router beside the health checker serves one request at a time.
HealthRequests == {1}

\* A request has ended; the server takes the next one.
NextRequest(r) ==
    /\ pc[r] \in {"succeeded", "failed"}
    /\ pc' = [pc EXCEPT ![r] = "idle"]
    /\ peer' = [peer EXCEPT ![r] = NoPeer]
    /\ retry' = [retry EXCEPT ![r] = 0]
    /\ attempts' = [attempts EXCEPT ![r] = 0]
    /\ status' = [status EXCEPT ![r] = 0]
    /\ served' = [served EXCEPT ![r] = NoPeer]
    /\ sleeps' = [sleeps EXCEPT ![r] = <<>>]
    /\ fwds' = [fwds EXCEPT ![r] = 0]
    /\ UNCHANGED <<cancelled, poolVars, driverVars, gwVars, auxVars>>

\* A backend goes down or comes back.
Reachability(b) ==
    /\ reach' = [reach EXCEPT ![b] = ~@]
    /\ UNCHANGED <<poolVars, lbVars, driverVars, gwVars, startVars, concVars,
                   probing, recovered>>

HealthInit ==
    /\ alive = [b \in 1..NumBackends |-> TRUE]
    /\ reach = [b \in 1..NumBackends |-> TRUE]
    /\ probing = {}
    /\ recovered \in [b : 1..NumBackends, stage : {"never"}]
    /\ cursor = 0
    /\ pc = [r \in Requests |-> "idle"]
    /\ peer = [r \in Requests |-> NoPeer]
    /\ retry = [r \in Requests |-> 0]
    /\ attempts = [r \in Requests |-> 0]
    /\ status = [r \in Requests |-> 0]
    /\ served = [r \in Requests |-> NoPeer]
    /\ sleeps = [r \in Requests |-> <<>>]
    /\ fwds = [r \in Requests |-> 0]
    /\ cancelled = [r \in Requests |-> FALSE]
    /\ ret = NoPeer
    /\ calls = <<>>
    /\ endpoints = <<>>
    /\ securityType = "none"
    /\ store = [val |-> "", err |-> FALSE]
    /\ proxy = 0
    /\ registered = 0
    /\ hook = <<>>
    /\ greq = [g \in GRequests |-> IdleRequest]
    /\ boot = [list |-> <<>>, next |-> 0, phase |-> "off"]
    /\ urls = <<>>
    /\ mark = [addr |-> 0, val |-> FALSE, called |-> FALSE, twice |-> FALSE]
    /\ callers = [c \in Callers |-> IdleCaller]
    /\ incs = 0

HealthNext ==
    \/ Tick
    \/ \E b \in Backends : ProbeDone(b)
    \/ \E r \in HealthRequests : Arrive(r)
    \/ \E r \in HealthRequests : RequestStep(r)
    \/ \E r \in HealthRequests : NextRequest(r)
    \/ \E b \in Backends : Reachability(b)

\* The ticker keeps firing, every probe ends (by its timeout at the
\* latest), the request's goroutine keeps being scheduled and requests keep
\* arriving.
HealthSpec ==
    /\ HealthInit
    /\ [][HealthNext]_vars
    /\ WF_vars(Tick)
    /\ \A b \in 1..NumBackends : WF_vars(ProbeDone(b))
    /\ \A r \in HealthRequests : WF_vars(RequestStep(r))
    /\ \A r \in HealthRequests : WF_vars(Arrive(r) \/ NextRequest(r))

\* ---------------------------------------------------------------- startup

\* The pieces a server list is written with: the text of a URL that
\* url.Parse accepts, a text it rejects, and the separator.
ListChunks == {"http://a", "http://b", "%zz", ","}

\* The server lists given to StartLB: no entry has more than one piece.
ServerLists ==
    {l \in UNION {[1..n -> ListChunks] : n \in 0..MaxList} :
        \A i \in 1..(Len(l) - 1) : l[i] = "," \/ l[i + 1] = ","}

\* strings.Split(serverList, ",") (lb.go:34)
RECURSIVE SplitList(_)
SplitList(s) ==
    IF \A i \in 1..Len(s) : s[i] # "," THEN <<s>>
    ELSE LET i == Min({j \in 1..Len(s) : s[j] = ","})
         IN  <<SubSeq(s, 1, i - 1)>> \o SplitList(SubSeq(s, i + 1, Len(s)))

\* url.Parse(tok) returned an error (lb.go:36-37).
ParseFails(tok) == \E i \in 1..Len(tok) : tok[i] = "%zz"

\* The URL url.Parse returns with an error: nil.
NilURL == <<"nil">>

\* StartLB, lb.go:29-32: an empty server list is fatal; otherwise the list
\* is split.
StartLB ==
    /\ boot.phase = "start"
    /\ boot' = [boot EXCEPT !.phase = IF Len(boot.list) = 0 THEN "fatal"
                                      ELSE "adding",
                            !.next = 1]
    /\ UNCHANGED <<poolVars, urls, lbVars, driverVars, gwVars, concVars,
                   healthVars>>

\* One turn of the loop of StartLB, lb.go:35-70.  A parse error is logged
\* and the turn goes on with the nil URL: NewSingleHostReverseProxy(nil)
\* either dereferences it and panics, or (where it keeps the target for the
\* director) returns, and the backend is added with the nil URL.
AddEntry ==
    /\ boot.phase = "adding"
    /\ boot.next <= Len(SplitList(boot.list))
    /\ LET tok == SplitList(boot.list)[boot.next]
           u   == IF ParseFails(tok) THEN NilURL ELSE tok
       IN  \/ /\ ParseFails(tok)
              /\ boot' = [boot EXCEPT !.phase = "panicked"]
              /\ UNCHANGED <<alive, urls>>
           \/ /\ boot' = [boot EXCEPT !.next = @ + 1]
              /\ alive' = Append(alive, TRUE)
              /\ urls' = Append(urls, u)
    /\ UNCHANGED <<cursor, lbVars, driverVars, gwVars, concVars, healthVars>>

\* lb.go:73-84: the server listens once every entry was handled.
Listen ==
    /\ boot.phase = "adding"
    /\ boot.next > Len(SplitList(boot.list))
    /\ boot' = [boot EXCEPT !.phase = "serving"]
    /\ UNCHANGED <<poolVars, urls, lbVars, driverVars, gwVars, concVars,
                   healthVars>>

StartInit ==
    /\ boot \in [list : ServerLists, next : {0}, phase : {"start"}]
    /\ urls = <<>>
    /\ alive = <<>>
    /\ cursor = 0
    /\ pc = [r \in Requests |-> "idle"]
    /\ peer = [r \in Requests |-> NoPeer]
    /\ retry = [r \in Requests |-> 0]
    /\ attempts = [r \in Requests |-> 0]
    /\ status = [r \in Requests |-> 0]
    /\ served = [r \in Requests |-> NoPeer]
    /\ sleeps = [r \in Requests |-> <<>>]
    /\ fwds = [r \in Requests |-> 0]
    /\ cancelled = [r \in Requests |-> FALSE]
    /\ ret = NoPeer
    /\ calls = <<>>
    /\ endpoints = <<>>
    /\ securityType = "none"
    /\ store = [val |-> "", err |-> FALSE]
    /\ proxy = 0
    /\ registered = 0
    /\ hook = <<>>
    /\ greq = [g \in GRequests |-> IdleRequest]
    /\ mark = [addr |-> 0, val |-> FALSE, called |-> FALSE, twice |-> FALSE]
    /\ callers = [c \in Callers |-> IdleCaller]
    /\ incs = 0
    /\ reach = <<>>
    /\ probing = {}
    /\ recovered = [b |-> NoPeer, stage |-> "never"]

StartNext ==
    \/ StartLB
    \/ AddEntry
    \/ Listen

StartSpec == StartInit /\ [][StartNext]_vars

\* ------------------------------------------------------------------ claims

AliveSet == {b \in Backends : alive[b]}

Terminal(r) == pc[r] \in {"succeeded", "failed"}

\* C1 step: what one step of request r must look like in the retry scenario.
C1Step(r) ==
    \* the first backend is given up only after 4 failed forwards to it with
    \* exactly 3 backoff sleeps between them, for retry = 0, 1, 2; it is then
    \* marked dead and the request goes back to selection, not to the client
    /\ (pc[r] = "forwarding" /\ pc'[r] = "selecting" /\ attempts[r] = 0) =>
          /\ sleeps[r] = << <<peer[r], 0>>, <<peer[r], 1>>, <<peer[r], 2>> >>
          /\ fwds[r] = maxRetries + 1
          /\ ~alive'[peer[r]]
          /\ attempts'[r] = 1
          /\ status'[r] = 0
    \* a failed forward before that leads to a sleep only
    /\ (pc[r] = "forwarding" /\ pc'[r] = "sleeping") =>
          /\ alive' = alive
          /\ Len(sleeps'[r]) = Len(sleeps[r]) + 1
          /\ status'[r] = 0
    \* the reroute picks a backend whose flag is true, never one whose flag
    \* is false, and with one alive the client sees no failure
    /\ (pc[r] = "selecting" /\ pc'[r] # "selecting" /\ AliveSet # {}) =>
          /\ pc'[r] = "forwarding"
          /\ peer'[r] \in AliveSet
          /\ status'[r] = 0
    \* the new backend succeeding ends the request with its response
    /\ (pc[r] = "forwarding" /\ pc'[r] = "succeeded") =>
          /\ status'[r] = StatusOK
          /\ served'[r] = peer[r]
          /\ attempts'[r] = 1 => Len(sleeps'[r]) = maxRetries

\* C1: a request whose forwards to its first backend A all fail sleeps
\* exactly 3 times (retry = 0, 1, 2), then A is marked dead, the request is
\* rerouted to a backend whose flag is true and, that one succeeding, the
\* client gets its response and no error; A is not selected while its flag
\* is false.
C1_RetryThenReroute == [][\A r \in Requests : C1Step(r)]_vars

C1_Witness ==
    \E r \in Requests : \E a, b \in Backends :
        /\ a # b
        /\ pc[r] = "succeeded"
        /\ attempts[r] = 1
        /\ sleeps[r] = << <<a, 0>>, <<a, 1>>, <<a, 2>> >>
        /\ ~alive[a]
        /\ served[r] = b
        /\ status[r] = StatusOK

\* C2: a request that has been rerouted and is forwarded to its newly chosen
\* backend for the first time carries retry = 0.
C2_RetryResetOnReroute ==
    \A r \in Requests :
        (pc[r] = "forwarding" /\ attempts[r] >= 1 /\ fwds[r] = 1) => retry[r] = 0

\* C3: every request that has entered the router eventually reaches
\* Succeeded or Failed.
C3_NoLivelock ==
    \A r \in Requests : (pc[r] = "selecting") ~> Terminal(r)

C10Step(r) ==
    \* selection with no backend alive: Failed at once, service unavailable,
    \* no forward and no sleep
    /\ (pc[r] = "selecting" /\ pc'[r] # "selecting" /\ AliveSet = {}) =>
          /\ pc'[r] = "failed"
          /\ status'[r] = StatusServiceUnavailable
          /\ peer'[r] = peer[r] /\ fwds'[r] = fwds[r] /\ sleeps'[r] = sleeps[r]
    \* Failed is entered only from such a selection
    /\ (pc'[r] = "failed" /\ pc[r] # "failed") =>
          pc[r] = "selecting" /\ AliveSet = {}
    \* a forwarding error never writes a failure to the client
    /\ (pc[r] = "forwarding" /\ pc'[r] # "succeeded") => status'[r] = 0
    /\ (status'[r] = StatusServiceUnavailable) => pc'[r] = "failed"

\* C10: peer selection finding no alive backend ends the request in Failed
\* with a service-unavailable response and no forward or sleep, and Failed is
\* reached only that way: a forwarding error alone is never client-visible.
C10_ExhaustionOnly == [][\A r \in Requests : C10Step(r)]_vars

C10_Witness ==
    \E r \in Requests :
        /\ pc[r] = "failed"
        /\ status[r] = StatusServiceUnavailable
        /\ attempts[r] >= 1
        /\ retry[r] = maxRetries

\* The scan start of the nextPeer() call a step makes.
ScanStart == cursor' % Len(alive)

\* How many positions past the scan start backend b lies.
Offset(b) == ((b - 1) - ScanStart + Len(alive)) % Len(alive)

\* C8: nextPeer() returns none exactly when every flag is false at the scan;
\* otherwise it returns a backend whose flag is true, every position
\* from cursor mod length up to it holding a backend whose flag is false.
C8_NextPeerNoneIffAllDead ==
    [][cursor' # cursor =>
          /\ (ret' = NoPeer) <=> (AliveSet = {})
          /\ ret' # NoPeer =>
                /\ ret' \in AliveSet
                /\ \A b \in Backends : Offset(b) < Offset(ret') => ~alive[b]]_vars

C8_Witness ==
    /\ Len(alive) = MaxPool
    /\ calls # <<>>
    /\ ret \in AliveSet
    /\ ret # BackendAt(cursor % Len(alive))
    /\ ~alive[BackendAt(cursor % Len(alive))]

\* C9: with a non-empty set of alive backends and no liveness change, the
\* consecutive nextPeer() calls return every alive backend once before any
\* of them is returned again: any |alive| consecutive results are distinct.
C9_RoundRobinFair ==
    LET k == Cardinality(AliveSet)
        w == LastN(calls, k)
    IN  AliveSet # {} =>
            \A i, j \in 1..Len(w) : i # j => w[i] # w[j]

\* Request g has been served on a protected endpoint under securityType t.
ProtectedRun(g, t) ==
    /\ greq[g].pc # "idle"
    /\ endpoints[greq[g].ep]
    /\ securityType = t

\* C4: on a protected apikey endpoint a request whose X-API-KEY differs from
\* the stored secret is never sent to the upstream and is answered with an
\* error; one with the stored secret is sent to the upstream.
C4_WrongKeyNeverReachesUpstream ==
    \A g \in GRequests :
        (ProtectedRun(g, "apikey") /\ ~greq[g].secret.err) =>
            IF greq[g].key = greq[g].secret.val
            THEN greq[g].pc # "checked" => greq[g].reached
            ELSE /\ ~greq[g].reached
                 /\ greq[g].pc = "done" => greq[g].status # StatusOK

\* C5: every response the gateway gives a client for a request the upstream
\* answered carries the X-Proxy header, whatever the endpoint's protection,
\* the securityType and the result of the check.
C5_EveryResponseHasXProxy ==
    \A g \in GRequests :
        (greq[g].pc = "done" /\ greq[g].answered) => greq[g].xproxy

\* C6: the API-key check passes when X-API-KEY equals the stored secret,
\* fails with the invalid-key error on any mismatch, and fails with it
\* whenever the lookup returned an error, whatever the header.
C6_ApiKeyCheck ==
    \A g \in GRequests :
        ProtectedRun(g, "apikey") =>
            greq[g].check =
                IF greq[g].secret.err THEN "Invalid API KEY"
                ELSE IF greq[g].key = greq[g].secret.val THEN "nil"
                ELSE "Invalid API KEY"

\* The Authorization header is "Bearer " followed by token t and nothing else.
IsBearerOf(h, t) == h = <<Bearer, Space, t>>

\* C7: the JWT check fails with the bearer-format error without the
\* "Bearer " prefix, with the HMAC error for a token signed with another
\* secret, with the expiration error for a rightly signed token whose exp is
\* past, and passes a rightly signed token whose exp is not past.
C7_JwtCheckOutcomes ==
    \A g \in GRequests :
        ProtectedRun(g, "jwt") =>
            LET h == greq[g].auth
                now == greq[g].now
                out == greq[g].check
            IN  /\ (Len(h) < 2 \/ h[1] # Bearer \/ h[2] # Space) =>
                      out = "ErrBearerTokenFormat"
                /\ \A k \in SigningKeys, e \in Times :
                      IsBearerOf(h, Jwt(k, e)) =>
                         /\ k # JwtKey => out = "ErrTokenHMACValidation"
                         /\ (k = JwtKey /\ e < now) => out = "ErrTokenExpValidation"
                         /\ (k = JwtKey /\ e >= now) => out = "nil"

C7_Witness ==
    \E g \in GRequests :
        /\ ProtectedRun(g, "jwt")
        /\ IsBearerOf(greq[g].auth, Jwt(JwtKey, 0))
        /\ greq[g].now > 0
        /\ greq[g].check = "ErrTokenExpValidation"
        /\ greq[g].pc = "done"
        /\ greq[g].status = StatusInternalServerError

\* C11: an empty server list is fatal, so the service never serves with no
\* backend; an entry of the list that is not a URL is skipped, and the pool
\* the service listens with holds the other entries, in their order.
C11_MalformedSkipped ==
    /\ (boot.phase = "fatal") = (boot.phase # "off" /\ boot.phase # "start"
                                 /\ boot.list = <<>>)
    /\ boot.phase # "panicked"
    /\ boot.phase = "serving" =>
        /\ Len(alive) > 0
        /\ urls = SelectSeq(SplitList(boot.list), LAMBDA t : ~ParseFails(t))

\* C12: once the client of a request has cancelled it, the router does
\* nothing more for the request: a back-off sleep that is pending does not
\* end in a new forward to the same backend, and the router neither marks
\* the backend dead nor reroutes the request.
C12_CancelStopsRetries ==
    [][\A r \in Requests :
        cancelled[r] =>
            /\ ~(pc[r] = "sleeping" /\ pc'[r] = "forwarding")
            /\ ~(pc[r] = "forwarding" /\ pc'[r] = "selecting")]_vars

\* C13: markBackendStatus(address, alive) sets the flag of the backend with
\* that address and nothing else: the other flags, the order and number of
\* the backends and the cursor are as before; with an address no backend
\* has it changes nothing; and the same call made again changes nothing.
C13_MarkFramedIdempotent ==
    [][mark' # mark =>
        /\ Len(alive') = Len(alive)
        /\ \A i \in Backends :
              alive'[i] = IF i = mark'.addr THEN mark'.val ELSE alive[i]
        /\ mark'.addr \notin Backends => alive' = alive
        /\ mark'.twice => alive' = alive
        /\ cursor' = cursor]_vars

\* The same call twice on a backend of a pool of several, whose flag now
\* differs from another's.
C13_Witness ==
    /\ mark.called
    /\ mark.twice
    /\ mark.addr \in Backends
    /\ alive[mark.addr] = mark.val
    /\ \E j \in Backends : alive[j] # mark.val
    /\ cursor > 0

\* C14: under every interleaving of concurrent nextPeer() calls, the cursor
\* has advanced by one for each call that made its increment, whatever the
\* calls found, and no two calls that are scanning at the same time obtained
\* the same cursor value to scan from.
C14_AtomicCursor ==
    /\ cursor = incs % CursorMod
    /\ \A c \in Callers :
          callers[c].pc = "scan" => callers[c].got \in 1..incs
    /\ \A c, d \in Callers :
          (c # d /\ callers[c].pc = "scan" /\ callers[d].pc = "scan")
              => callers[c].got # callers[d].got

\* Two calls scanning at once after an earlier call, which found no backend
\* alive.
C14_Witness ==
    /\ \A c \in Callers : callers[c].pc = "scan"
    /\ incs >= 3
    /\ ret = NoPeer
    /\ AliveSet = {}

\* C15: for every request and every backend X it is forwarded to, X is
\* marked dead and the request rerouted only after the request's first
\* forward to X and maxRetries further forwards to X have all failed.
C15_RetryBeforeReroute ==
    [][\A r \in Requests :
        (pc[r] = "forwarding" /\ pc'[r] = "selecting")
            => fwds[r] = maxRetries + 1]_vars

\* C16: the result of a request's check acts on the response of the
\* endpoint the request is for, wherever that endpoint stands among the
\* configured ones: (a) a request whose check failed on a protected
\* endpoint is not given the upstream's response; (b) a request for an
\* unprotected endpoint, which runs no check, is given it.
C16_CheckWiredToOwnEndpoint ==
    \A g \in GRequests :
        (greq[g].pc = "done" /\ greq[g].answered) =>
            /\ (endpoints[greq[g].ep] /\ greq[g].check \notin {"nil", "notrun"})
                  => greq[g].status # StatusOK
            /\ ~endpoints[greq[g].ep] => greq[g].status = StatusOK

\* C17: of two concurrent requests on the same protected endpoint, here the
\* only endpoint configured, each is answered by the result of its own
\* check: the one whose check failed is not given the upstream's response,
\* and the one whose check passed is given it.
C17_AuthIsolation ==
    \A g \in GRequests :
        (/\ Len(endpoints) = 1
         /\ securityType \in {"jwt", "apikey"}
         /\ endpoints[1]
         /\ greq[g].pc = "done"
         /\ greq[g].answered) =>
            (greq[g].check = "nil") = (greq[g].status = StatusOK)

\* C18: the JWT check passes (returns nil) only for a header whose token is
\* signed with the configured secret and whose exp is not past; with an
\* empty or malformed token, or any other verification error, it fails.
C18_JwtPassesOnlyVerified ==
    \A g \in GRequests :
        (ProtectedRun(g, "jwt") /\ greq[g].check = "nil") =>
            /\ HasBearerPrefix(greq[g].auth)
            /\ \E e \in Times :
                  /\ Split(greq[g].auth)[2] = <<Jwt(JwtKey, e)>>
                  /\ e >= greq[g].now

\* C19: the probe of a backend sets that backend's flag, and no other, to
\* the probe's result; a backend whose probe is outstanding can have its
\* flag updated whatever other probes of the tick are still outstanding; and
\* a backend the router marked dead that is reachable again is marked alive
\* by a probe and then returned by nextPeer(), unless it goes down again
\* first.  The router marks a backend dead whenever a forward to it has
\* failed, reachable or not.
C19_HealthRecovery ==
    /\ [][\A b \in 1..NumBackends :
            (b \in probing /\ b \notin probing') =>
                /\ alive'[b] = reach[b]
                /\ \A c \in 1..NumBackends : c # b => alive'[c] = alive[c]]_vars
    /\ [](\A b \in 1..NumBackends : b \in probing => ENABLED ProbeDone(b))
    /\ (recovered.stage = "marked" /\ reach[recovered.b])
          ~> (recovered.stage = "returned" \/ ~reach[recovered.b])

\* A backend the router marked dead has been marked alive by its probe and
\* returned by nextPeer() while the probe of another backend, which is
\* down, is still outstanding.
C19_Witness ==
    \E b, c \in Backends :
        /\ recovered = [b |-> b, stage |-> "returned"]
        /\ alive[b]
        /\ \E r \in HealthRequests : pc[r] = "forwarding" /\ peer[r] = b
        /\ reach[b]
        /\ b \notin probing
        /\ c \in probing
        /\ ~reach[c]

=============================================================================
